---- MODULE Spec2Model ----
(***************************************************************************)
(* Player fighter state machine of amazonwarriors (state_machines.py),     *)
(* its InputState (input_state.py) and the per-fighter animation cycle     *)
(* that the on_enter / on_exit hooks start and cancel.                     *)
(***************************************************************************)
EXTENDS Integers, Sequences, FiniteSets, TLC

VARIABLES
    current_state,     \* PlayerStateMachine.current_state (state id)
    queue,             \* PlayerStateMachine._queue, deque(maxlen=2)
    left_pressed,      \* InputState._left_pressed
    right_pressed,     \* InputState._right_pressed
    shift_key_pressed, \* InputState.shift_key_pressed
    direction,         \* InputState.direction
    pressed,           \* press_left or press_right has been called
    latest_cmd,        \* InputState.latest_cmd ("none" is None)
    cycle,             \* the animation cycle running under tag "player"
    trace,             \* hooks run while the last operation was processed
    last,              \* the last operation and the state it started from
    enemy_state,       \* EnemyStateMachine.current_state (state id)
    enemy_cycle,       \* the animation cycle running under tag "enemy"
    enemy_last         \* the enemy's last completion: source state and roll

vars == <<current_state, queue, left_pressed, right_pressed, shift_key_pressed,
          direction, pressed, latest_cmd, cycle, trace, last,
          enemy_state, enemy_cycle, enemy_last>>

\* The player's machine, input state and observations
player_vars == <<current_state, queue, left_pressed, right_pressed,
                 shift_key_pressed, direction, pressed, latest_cmd, cycle,
                 trace, last>>

\* The enemy's machine and observations
enemy_vars == <<enemy_state, enemy_cycle, enemy_last>>

\* ------------------------------------------------------------------ data

\* State declarations of PlayerStateMachine
States == {"Idle", "Idle_2", "Walk", "Run", "Jump", "Attack_1", "Attack_2",
           "Special", "Hurt", "Dead"}

\* ACTION_STATES of auto_state_handlers; also _is_non_interruptible
ACTION_STATES == {"Jump", "Attack_1", "Attack_2", "Special"}

MovementStates == {"Idle", "Walk", "Run"}

\* Command strings the action guards recognise
Commands == {"jump", "attack_1", "attack_2", "special"}

\* handle_action_input takes any string: one unrecognised value stands for them
Inputs == Commands \cup {"taunt"}

NoCmd == "none"

\* deque(maxlen=2)
MaxLen == 2

\* No cycle under the fighter's tag: st and dir are those of the newest cycle,
\* n is how many cycles run under the tag
NoCycle == [st |-> "none", dir |-> 0, n |-> 0]

\* A stop that leaves the tagged actions running
stop_actions_for_target_keeps(c) == c

\* Action.stop_actions_for_target(figure, tag=tag): every action under the tag
\* is removed
stop_actions_for_target(c) == NoCycle

\* setup_cycle: one more cycle under the tag, showing state s facing dir and
\* calling the state's on_cycle_complete at the end of every loop
setup_cycle(c, s, dir) == [st |-> s, dir |-> dir, n |-> c.n + 1]

\* ------------------------------------------------------------ InputState

\* The InputState fields the guards read
Inp(l, r, s, d) == [left |-> l, right |-> r, shift |-> s, direction |-> d]

CurInp == Inp(left_pressed, right_pressed, shift_key_pressed, direction)

\* InputState.move
move(inp) == inp.left \/ inp.right

\* InputState.shift
shift(inp) == inp.shift

\* forward that only tells a direction from none
forward_nonzero(inp) == inp.direction # 0

\* PlayerStateMachine.forward
forward(inp) == inp.direction = 1

\* _update_direction that resets the direction when no key is held
update_direction_none_is_zero(l, r, d) == IF r THEN 1 ELSE IF l THEN -1 ELSE 0

\* _update_direction that tests the left key first
update_direction_left_first(l, r, d) == IF l THEN -1 ELSE IF r THEN 1 ELSE d

\* InputState._update_direction
update_direction(l, r, d) == IF r THEN 1 ELSE IF l THEN -1 ELSE d

\* InputState.move_key_pressed
move_key_pressed(inp) == move(inp)

\* get_desired_movement_state that lets only a forward direction run
get_desired_movement_state_forward(inp, idle_state, walk_state, run_state) ==
    IF move_key_pressed(inp)
    THEN IF inp.shift /\ inp.direction = 1 THEN run_state ELSE walk_state
    ELSE idle_state

\* get_desired_movement_state that does not read the shift key
get_desired_movement_state_no_shift(inp, idle_state, walk_state, run_state) ==
    IF move_key_pressed(inp) THEN walk_state ELSE idle_state

\* InputState.get_desired_movement_state
get_desired_movement_state(inp, idle_state, walk_state, run_state) ==
    IF move_key_pressed(inp)
    THEN IF inp.shift THEN run_state ELSE walk_state
    ELSE idle_state

\* PlayerStateMachine._get_movement_state (the player's ctx has an input state)
get_movement_state(inp) == get_desired_movement_state(inp, "Idle", "Walk", "Run")

\* ------------------------------------------------- transition declarations

T(src, dst, cond, unless) ==
    [src |-> src, dst |-> dst, cond |-> cond, unless |-> unless, weight |-> 0]

W(src, dst, weight) ==
    [src |-> src, dst |-> dst, cond |-> "", unless |-> "", weight |-> weight]

\* movement with rows that leave Jump like the rows that leave Walk
movement_from_jump == <<
    T("Idle", "Walk", "move and not shift", ""),
    T("Idle", "Run",  "move and shift and forward", ""),
    T("Idle", "Walk", "move and shift", ""),
    T("Idle", "Idle", "", "move"),
    T("Walk", "Run",  "move and shift and forward", ""),
    T("Walk", "Idle", "", "move"),
    T("Jump", "Run",  "move and shift and forward", ""),
    T("Jump", "Idle", "", "move"),
    T("Run",  "Walk", "move and not shift", ""),
    T("Run",  "Walk", "move and not forward", ""),
    T("Run",  "Idle", "", "move") >>

\* movement without the row that demotes a backward Run to Walk
movement_no_demote == <<
    T("Idle", "Walk", "move and not shift", ""),
    T("Idle", "Run",  "move and shift and forward", ""),
    T("Idle", "Walk", "move and shift", ""),
    T("Idle", "Idle", "", "move"),
    T("Walk", "Run",  "move and shift and forward", ""),
    T("Walk", "Idle", "", "move"),
    T("Run",  "Walk", "move and not shift", ""),
    T("Run",  "Idle", "", "move") >>

movement == <<
    T("Idle", "Walk", "move and not shift", ""),
    T("Idle", "Run",  "move and shift and forward", ""),
    T("Idle", "Walk", "move and shift", ""),
    T("Idle", "Idle", "", "move"),
    T("Walk", "Run",  "move and shift and forward", ""),
    T("Walk", "Idle", "", "move"),
    T("Run",  "Walk", "move and not shift", ""),
    T("Run",  "Walk", "move and not forward", ""),
    T("Run",  "Idle", "", "move") >>

\* action with the jump from Walk guarded like the jump from Run
action_jump_unguarded == <<
    T("Idle", "Jump", "cmd_jump and forward", ""),
    T("Walk", "Jump", "cmd_jump", ""),
    T("Run",  "Jump", "cmd_jump", ""),
    T("Idle", "Attack_1", "cmd_attack_1", ""),
    T("Walk", "Attack_1", "cmd_attack_1", ""),
    T("Run",  "Attack_1", "cmd_attack_1", ""),
    T("Idle", "Attack_2", "cmd_attack_2", ""),
    T("Walk", "Attack_2", "cmd_attack_2", ""),
    T("Run",  "Attack_2", "cmd_attack_2", ""),
    T("Idle", "Special", "cmd_special", ""),
    T("Walk", "Special", "cmd_special", ""),
    T("Run",  "Special", "cmd_special", "") >>

action == <<
    T("Idle", "Jump", "cmd_jump and forward", ""),
    T("Walk", "Jump", "cmd_jump and forward", ""),
    T("Run",  "Jump", "cmd_jump", ""),
    T("Idle", "Attack_1", "cmd_attack_1", ""),
    T("Walk", "Attack_1", "cmd_attack_1", ""),
    T("Run",  "Attack_1", "cmd_attack_1", ""),
    T("Idle", "Attack_2", "cmd_attack_2", ""),
    T("Walk", "Attack_2", "cmd_attack_2", ""),
    T("Run",  "Attack_2", "cmd_attack_2", ""),
    T("Idle", "Special", "cmd_special", ""),
    T("Walk", "Special", "cmd_special", ""),
    T("Run",  "Special", "cmd_special", "") >>

\* idle whose rare transition goes to Walk
idle_to_walk == << W("Idle", "Walk", 10), W("Idle", "Idle", 90) >>

idle == << W("Idle", "Idle_2", 10), W("Idle", "Idle", 90) >>

idle_2 == << T("Idle_2", "Idle", "", "") >>

run == << T("Run", "Run", "", "") >>

\* walk that follows the input back to Idle
walk_to_idle == << T("Walk", "Idle", "", "move"), T("Walk", "Walk", "", "") >>

walk == << T("Walk", "Walk", "", "") >>

\* resume that walks whenever a movement key is held
resume_walk_any_shift == <<
    T("Jump", "Walk", "move", ""),
    T("Jump", "Run",  "move and shift and forward", ""),
    T("Jump", "Idle", "", "move"),
    T("Attack_1", "Walk", "move", ""),
    T("Attack_1", "Run",  "move and shift and forward", ""),
    T("Attack_1", "Idle", "", "move"),
    T("Attack_2", "Walk", "move", ""),
    T("Attack_2", "Run",  "move and shift and forward", ""),
    T("Attack_2", "Idle", "", "move"),
    T("Special", "Walk", "move", ""),
    T("Special", "Run",  "move and shift and forward", ""),
    T("Special", "Idle", "", "move") >>

resume == <<
    T("Jump", "Run",  "move and shift and forward", ""),
    T("Jump", "Walk", "move and not shift", ""),
    T("Jump", "Idle", "", "move"),
    T("Attack_1", "Run",  "move and shift and forward", ""),
    T("Attack_1", "Walk", "move and not shift", ""),
    T("Attack_1", "Idle", "", "move"),
    T("Attack_2", "Run",  "move and shift and forward", ""),
    T("Attack_2", "Walk", "move and not shift", ""),
    T("Attack_2", "Idle", "", "move"),
    T("Special", "Run",  "move and shift and forward", ""),
    T("Special", "Walk", "move and not shift", ""),
    T("Special", "Idle", "", "move") >>

\* hurt that skips Dead
hurt_to_idle == << T("Hurt", "Idle", "", "") >>

hurt == << T("Hurt", "Dead", "", "") >>

dead == << T("Dead", "Idle", "", "") >>

connect_hurt == << T("Idle", "Hurt", "", "") >>

\* ------------------------------------------- EnemyStateMachine declarations

\* State declarations of EnemyStateMachine
EnemyStates == {"Idle", "Idle_2", "Attack_1", "Attack_2", "Jump", "Run",
                "Special", "Walk"}

enemy_idle == <<
    W("Idle", "Attack_1", 5),
    W("Idle", "Attack_2", 5),
    W("Idle", "Idle_2", 10),
    W("Idle", "Run", 15),
    W("Idle", "Special", 5),
    W("Idle", "Walk", 20),
    W("Idle", "Idle", 40) >>

enemy_attack_1 == <<
    W("Attack_1", "Attack_1", 10),
    W("Attack_1", "Attack_2", 10),
    W("Attack_1", "Special", 10),
    W("Attack_1", "Run", 15),
    W("Attack_1", "Walk", 25),
    W("Attack_1", "Idle", 30) >>

enemy_attack_2 == <<
    W("Attack_2", "Attack_1", 10),
    W("Attack_2", "Attack_2", 10),
    W("Attack_2", "Special", 10),
    W("Attack_2", "Run", 15),
    W("Attack_2", "Walk", 25),
    W("Attack_2", "Idle", 30) >>

\* special that returns to Run instead of Walk
enemy_special_to_run == << W("Special", "Run", 20), W("Special", "Idle", 80) >>

enemy_special == << W("Special", "Walk", 20), W("Special", "Idle", 80) >>

\* jump that may loop on Jump
enemy_jump_loops == <<
    W("Jump", "Jump", 10),
    W("Jump", "Attack_2", 10),
    W("Jump", "Special", 10),
    W("Jump", "Run", 15),
    W("Jump", "Walk", 25),
    W("Jump", "Idle", 30) >>

enemy_jump == <<
    W("Jump", "Attack_1", 10),
    W("Jump", "Attack_2", 10),
    W("Jump", "Special", 10),
    W("Jump", "Run", 15),
    W("Jump", "Walk", 25),
    W("Jump", "Idle", 30) >>

enemy_run == <<
    W("Run", "Jump", 20),
    W("Run", "Run", 40),
    W("Run", "Walk", 20),
    W("Run", "Idle", 20) >>

\* walk with the return to Idle weighted like the Walk loop
enemy_walk_idle_35 == <<
    W("Walk", "Attack_1", 5),
    W("Walk", "Attack_2", 10),
    W("Walk", "Special", 5),
    W("Walk", "Run", 25),
    W("Walk", "Walk", 35),
    W("Walk", "Idle", 35) >>

enemy_walk == <<
    W("Walk", "Attack_1", 5),
    W("Walk", "Attack_2", 10),
    W("Walk", "Special", 5),
    W("Walk", "Run", 25),
    W("Walk", "Walk", 35),
    W("Walk", "Idle", 15) >>

\* idle_2 that loops on Idle_2
enemy_idle_2_stays == << T("Idle_2", "Idle_2", "", "") >>

enemy_idle_2 == << T("Idle_2", "Idle", "", "") >>

\* The enemy event named after a state (transition_event_name)
EnemyEventOf(s) ==
    CASE s = "Idle" -> enemy_idle
      [] s = "Idle_2" -> enemy_idle_2
      [] s = "Attack_1" -> enemy_attack_1
      [] s = "Attack_2" -> enemy_attack_2
      [] s = "Special" -> enemy_special
      [] s = "Jump" -> enemy_jump
      [] s = "Run" -> enemy_run
      [] s = "Walk" -> enemy_walk

\* The transitions of an enemy event that leave state s (none has a guard)
EnemyRows(ev, s) == SelectSeq(ev, LAMBDA t : t.src = s)

\* The sum of the declared weights of some transitions
RECURSIVE TotalWeight(_)
TotalWeight(rows) ==
    IF rows = <<>> THEN 0 ELSE Head(rows).weight + TotalWeight(Tail(rows))

\* The values a weighted roll over some transitions can take
Rolls(rows) == 1..(IF TotalWeight(rows) = 0 THEN 1 ELSE TotalWeight(rows))

\* The transition a roll selects: each transition owns as many consecutive
\* roll values as its weight; unweighted transitions are taken in order
RECURSIVE Pick(_, _)
Pick(rows, roll) ==
    IF Len(rows) = 1 \/ roll <= Head(rows).weight THEN Head(rows)
    ELSE Pick(Tail(rows), roll - Head(rows).weight)

\* ---------------------------------------------------------------- guards

\* PlayerStateMachine._check_cmd
check_cmd(m, name) == m.latest_cmd = name

\* A guard expression of a transition, over the guard properties
Eval(e, m, inp) ==
    CASE e = "move"                       -> move(inp)
      [] e = "move and not shift"         -> move(inp) /\ ~shift(inp)
      [] e = "move and shift and forward" -> move(inp) /\ shift(inp) /\ forward(inp)
      [] e = "move and shift"             -> move(inp) /\ shift(inp)
      [] e = "move and not forward"       -> move(inp) /\ ~forward(inp)
      [] e = "cmd_jump and forward"       -> check_cmd(m, "jump") /\ forward(inp)
      [] e = "cmd_jump"                   -> check_cmd(m, "jump")
      [] e = "cmd_attack_1"               -> check_cmd(m, "attack_1")
      [] e = "cmd_attack_2"               -> check_cmd(m, "attack_2")
      [] e = "cmd_special"                -> check_cmd(m, "special")

\* cond= must hold and unless= must not
Allowed(t, m, inp) ==
    /\ t.cond = "" \/ Eval(t.cond, m, inp)
    /\ t.unless = "" \/ ~Eval(t.unless, m, inp)

\* ----------------------------------------------------------------- hooks

\* The machine as a record, so that one handler can process several events
Machine == [state |-> current_state, queue |-> queue, latest_cmd |-> latest_cmd,
            cycle |-> cycle, trace |-> <<>>]

\* _consume_cmd that leaves latest_cmd alone
consume_cmd_keeps(m) == m

\* PlayerStateMachine._consume_cmd
consume_cmd(m) == [m EXCEPT !.latest_cmd = NoCmd]

\* _enter that always starts the cycle facing right
enter_facing_right(m, s, inp) ==
    LET m1 == IF s \in ACTION_STATES THEN consume_cmd(m) ELSE m
    IN [m1 EXCEPT !.cycle = setup_cycle(stop_actions_for_target(@), s, 1),
                  !.trace = Append(@, [hook |-> "enter", st |-> s])]

\* auto_state_handlers._enter: consume the command of an action state, stop the
\* running cycle and start this state's cycle facing the current direction
enter(m, s, inp) ==
    LET m1 == IF s \in ACTION_STATES THEN consume_cmd(m) ELSE m
    IN [m1 EXCEPT !.cycle = setup_cycle(stop_actions_for_target(@), s,
                                        inp.direction),
                  !.trace = Append(@, [hook |-> "enter", st |-> s])]

\* auto_state_handlers._exit: stop the actions tagged for the fighter
exit(m, s) ==
    [m EXCEPT !.cycle = stop_actions_for_target(@),
              !.trace = Append(@, [hook |-> "exit", st |-> s])]

\* One transition taken: on_exit of the source, the state change, on_enter of
\* the target (no transition is declared internal, a self-transition included)
Activate(m, t, inp) ==
    enter([exit(m, t.src) EXCEPT !.state = t.dst], t.dst, inp)

\* The transitions of an event that leave state s and whose guards hold, in
\* declaration order
Eligible(ev, m, inp) ==
    SelectSeq(ev, LAMBDA t : t.src = m.state /\ Allowed(t, m, inp))

\* Firing an event: the first eligible transition is taken, or one of the
\* weighted ones; with none the event is absorbed
\* (allow_event_without_transition)
Fire(ev, m, inp) ==
    LET el == Eligible(ev, m, inp)
        wt == {i \in DOMAIN el : el[i].weight > 0}
    IN IF el = <<>> THEN {m}
       ELSE IF wt # {} THEN {Activate(m, el[i], inp) : i \in wt}
       ELSE {Activate(m, Head(el), inp)}

\* append on a deque without maxlen
append_unbounded(q, cmd) == Append(q, cmd)

\* append that refuses the new command when the deque is full
append_drop_newest(q, cmd) == IF Len(q) >= MaxLen THEN q ELSE Append(q, cmd)

\* deque.append on a deque(maxlen=MaxLen): a full deque drops its head
append(q, cmd) ==
    IF Len(q) >= MaxLen THEN Append(Tail(q), cmd) ELSE Append(q, cmd)

\* PlayerStateMachine._pump_queue
pump_queue(m, inp) ==
    IF m.queue # <<>>
    THEN Fire(action, [m EXCEPT !.queue = Tail(@), !.latest_cmd = Head(m.queue)], inp)
    ELSE {m}

\* The resume event with its after_resume hook, which runs when a transition
\* was taken
fire_resume(m, inp) ==
    IF Eligible(resume, m, inp) = <<>> THEN {m}
    ELSE UNION {pump_queue(m1, inp) : m1 \in Fire(resume, m, inp)}

\* _on_action_complete that resumes without looking at the buffer
on_action_complete_resumes(m, inp) == fire_resume(m, inp)

\* auto_state_handlers._on_action_complete
on_action_complete(m, inp) ==
    IF m.queue # <<>>
    THEN Fire(action, [m EXCEPT !.queue = Tail(@), !.latest_cmd = Head(m.queue)], inp)
    ELSE fire_resume(m, inp)

\* The event named after a state (transition_event_name)
EventOf(s) ==
    CASE s = "Idle" -> idle
      [] s = "Idle_2" -> idle_2
      [] s = "Walk" -> walk
      [] s = "Run" -> run
      [] s = "Hurt" -> hurt
      [] s = "Dead" -> dead

\* The on_cycle_complete callback that _enter registers for state s
on_complete(s, m, inp) ==
    IF s \in ACTION_STATES THEN on_action_complete(m, inp)
    ELSE Fire(EventOf(s), m, inp)

\* _is_non_interruptible without Special.is_active
is_non_interruptible_no_special(m) == m.state \in {"Jump", "Attack_1", "Attack_2"}

\* PlayerStateMachine._is_non_interruptible
is_non_interruptible(m) == m.state \in ACTION_STATES

\* handle_action_input that fires action without setting latest_cmd
handle_action_input_no_pending(m, cmd, inp) ==
    IF is_non_interruptible(m)
    THEN {[m EXCEPT !.queue = append(@, cmd)]}
    ELSE Fire(action, m, inp)

\* handle_action_input that keeps an older pending command
handle_action_input_keeps_pending(m, cmd, inp) ==
    IF is_non_interruptible(m)
    THEN {[m EXCEPT !.queue = append(@, cmd)]}
    ELSE Fire(action,
              [m EXCEPT !.latest_cmd = IF @ = NoCmd THEN cmd ELSE @], inp)

\* PlayerStateMachine.handle_action_input
handle_action_input(m, cmd, inp) ==
    IF is_non_interruptible(m)
    THEN {[m EXCEPT !.queue = append(@, cmd)]}
    ELSE Fire(action, [m EXCEPT !.latest_cmd = cmd], inp)

\* --------------------------------------------------------------- actions

Op(name, cmd, rep) ==
    [op |-> name, cmd |-> cmd, rep |-> rep, from |-> current_state,
     q |-> queue, cyc |-> cycle, pend |-> latest_cmd, dir |-> direction,
     ret |-> "none", mv |-> 0]

Install(m) ==
    /\ current_state' = m.state
    /\ queue' = m.queue
    /\ latest_cmd' = m.latest_cmd
    /\ cycle' = m.cycle
    /\ trace' = m.trace

KeepMachine ==
    /\ UNCHANGED <<current_state, queue, latest_cmd, cycle>>
    /\ trace' = <<>>

\* The enemy has its own machine, context and tag: a player operation leaves
\* them alone
KeepEnemy == UNCHANGED enemy_vars

NoEnemyOp == [from |-> "none", roll |-> 0, weight |-> 0, total |-> 0]

Init ==
    /\ current_state = "Idle"
    /\ queue = <<>>
    /\ left_pressed = FALSE
    /\ right_pressed = FALSE
    /\ shift_key_pressed = FALSE
    /\ direction = 1
    /\ pressed = FALSE
    /\ latest_cmd = NoCmd
    /\ cycle = setup_cycle(NoCycle, "Idle", 1)
    /\ trace = <<>>
    /\ last = [op |-> "init", cmd |-> NoCmd, rep |-> FALSE, from |-> "Idle",
               q |-> <<>>, cyc |-> NoCycle, pend |-> NoCmd, dir |-> 1,
               ret |-> "none", mv |-> 0]
    /\ enemy_state = "Idle"
    /\ enemy_cycle = setup_cycle(NoCycle, "Idle", 1)
    /\ enemy_last = NoEnemyOp

\* InputState.press_left
press_left ==
    /\ left_pressed' = TRUE
    /\ pressed' = TRUE
    /\ direction' = update_direction(TRUE, right_pressed, direction)
    /\ UNCHANGED <<right_pressed, shift_key_pressed>>
    /\ KeepMachine
    /\ last' = Op("press_left", NoCmd, FALSE)
    /\ KeepEnemy

\* InputState.release_left
release_left ==
    /\ left_pressed' = FALSE
    /\ UNCHANGED pressed
    /\ direction' = update_direction(FALSE, right_pressed, direction)
    /\ UNCHANGED <<right_pressed, shift_key_pressed>>
    /\ KeepMachine
    /\ last' = Op("release_left", NoCmd, FALSE)
    /\ KeepEnemy

\* InputState.press_right
press_right ==
    /\ right_pressed' = TRUE
    /\ pressed' = TRUE
    /\ direction' = update_direction(left_pressed, TRUE, direction)
    /\ UNCHANGED <<left_pressed, shift_key_pressed>>
    /\ KeepMachine
    /\ last' = Op("press_right", NoCmd, FALSE)
    /\ KeepEnemy

\* InputState.release_right
release_right ==
    /\ right_pressed' = FALSE
    /\ UNCHANGED pressed
    /\ direction' = update_direction(left_pressed, FALSE, direction)
    /\ UNCHANGED <<left_pressed, shift_key_pressed>>
    /\ KeepMachine
    /\ last' = Op("release_right", NoCmd, FALSE)
    /\ KeepEnemy

\* shift_key_pressed is assigned by the key handlers
set_shift ==
    \E b \in BOOLEAN :
        /\ shift_key_pressed' = b
        /\ UNCHANGED <<left_pressed, right_pressed, direction, pressed>>
        /\ KeepMachine
        /\ last' = Op("set_shift", NoCmd, FALSE)
        /\ KeepEnemy

\* The movement event, fired with the input state as it is
Movement ==
    /\ \E m \in Fire(movement, Machine, CurInp) : Install(m)
    /\ UNCHANGED <<left_pressed, right_pressed, shift_key_pressed, direction,
                       pressed>>
    /\ last' = [Op("movement", NoCmd, last.op = "movement") EXCEPT !.mv = 1]
    /\ KeepEnemy

\* handle_action_input(cmd)
HandleActionInput ==
    \E cmd \in Inputs :
        /\ \E m \in handle_action_input(Machine, cmd, CurInp) : Install(m)
        /\ UNCHANGED <<left_pressed, right_pressed, shift_key_pressed, direction,
                       pressed>>
        /\ last' = Op("handle_action_input", cmd, FALSE)
        /\ KeepEnemy

\* The running cycle completes a loop and calls its on_cycle_complete callback
CycleComplete ==
    /\ cycle # NoCycle
    /\ \E m \in on_complete(cycle.st, Machine, CurInp) : Install(m)
    /\ UNCHANGED <<left_pressed, right_pressed, shift_key_pressed, direction,
                       pressed>>
    /\ last' = Op("complete", NoCmd, FALSE)
    /\ KeepEnemy

\* A caller asks which movement state the input asks for
GetMovementState ==
    /\ UNCHANGED <<left_pressed, right_pressed, shift_key_pressed, direction,
                   pressed>>
    /\ KeepMachine
    /\ last' = [Op("get_movement_state", NoCmd, FALSE)
                  EXCEPT !.ret = get_movement_state(CurInp)]
    /\ KeepEnemy

\* The enemy's running cycle completes a loop and fires the event named after
\* its state; the weighted choice among the transitions is a roll
EnemyCycleComplete ==
    /\ enemy_cycle.st = enemy_state
    /\ LET rows == EnemyRows(EnemyEventOf(enemy_cycle.st), enemy_state)
       IN \E roll \in Rolls(rows) :
              LET t == Pick(rows, roll)
              IN /\ enemy_state' = t.dst
                 /\ enemy_cycle' =
                        setup_cycle(stop_actions_for_target(
                                        stop_actions_for_target(enemy_cycle)),
                                    t.dst, 1)
                 /\ enemy_last' = [from |-> enemy_state, roll |-> roll,
                                   weight |-> t.weight,
                                   total |-> TotalWeight(rows)]
    /\ UNCHANGED player_vars

Next ==
    \/ press_left
    \/ release_left
    \/ press_right
    \/ release_right
    \/ set_shift
    \/ Movement
    \/ HandleActionInput
    \/ CycleComplete
    \/ GetMovementState

Spec == Init /\ [][Next]_vars

\* The gameplay events with a cycle that keeps looping: callback_until runs
\* under the condition infinite, so a running cycle completes again and again
SpecLive == Spec /\ WF_vars(CycleComplete)

\* The resume event fired from outside the completion callback
Resume ==
    /\ \E m \in fire_resume(Machine, CurInp) : Install(m)
    /\ UNCHANGED <<left_pressed, right_pressed, shift_key_pressed, direction,
                   pressed>>
    /\ last' = Op("resume", NoCmd, FALSE)
    /\ KeepEnemy

\* The _connect_hurt event, which no gameplay code fires
ConnectHurt ==
    /\ \E m \in Fire(connect_hurt, Machine, CurInp) : Install(m)
    /\ UNCHANGED <<left_pressed, right_pressed, shift_key_pressed, direction,
                   pressed>>
    /\ last' = Op("_connect_hurt", NoCmd, FALSE)
    /\ KeepEnemy

\* The player with resume and _connect_hurt as further entry points
NextDirect ==
    \/ Next
    \/ Resume
    \/ ConnectHurt

SpecDirect == Init /\ [][NextDirect]_vars

\* The enemy fighter on its own: it takes no input, only completions
NextEnemy == EnemyCycleComplete

SpecEnemy == Init /\ [][NextEnemy]_vars

\* One InputState update immediately followed by the movement event, fired
\* with the updated input
KeyThenMovement(name, l, r, s, d) ==
    /\ left_pressed' = l
    /\ right_pressed' = r
    /\ shift_key_pressed' = s
    /\ direction' = d
    /\ pressed' = (pressed \/ l \/ r)
    /\ \E m \in Fire(movement, Machine, Inp(l, r, s, d)) : Install(m)
    /\ last' = [Op(name, NoCmd, FALSE) EXCEPT !.mv = 1]
    /\ KeepEnemy

\* InputState.press_left, then movement
PressLeftMovement ==
    KeyThenMovement("press_left+movement", TRUE, right_pressed,
                    shift_key_pressed,
                    update_direction(TRUE, right_pressed, direction))

\* InputState.release_left, then movement
ReleaseLeftMovement ==
    KeyThenMovement("release_left+movement", FALSE, right_pressed,
                    shift_key_pressed,
                    update_direction(FALSE, right_pressed, direction))

\* InputState.press_right, then movement
PressRightMovement ==
    KeyThenMovement("press_right+movement", left_pressed, TRUE,
                    shift_key_pressed,
                    update_direction(left_pressed, TRUE, direction))

\* InputState.release_right, then movement
ReleaseRightMovement ==
    KeyThenMovement("release_right+movement", left_pressed, FALSE,
                    shift_key_pressed,
                    update_direction(left_pressed, FALSE, direction))

\* shift_key_pressed assigned, then movement
ShiftMovement ==
    \E b \in BOOLEAN :
        KeyThenMovement("set_shift+movement", left_pressed, right_pressed, b,
                        direction)

\* The player when every press or release of left, right or shift is
\* immediately followed by a movement event
NextKeys ==
    \/ PressLeftMovement
    \/ ReleaseLeftMovement
    \/ PressRightMovement
    \/ ReleaseRightMovement
    \/ ShiftMovement
    \/ HandleActionInput
    \/ CycleComplete

SpecKeys == Init /\ [][NextKeys]_vars

\* Keys that DuelView handles (ESCAPE closes the window and ends the run)
Keys == {"LEFT", "RIGHT", "LSHIFT", "SPACE", "LCTRL"}

\* Assigning InputState.move_key_pressed, a property without a setter, raises
\* AttributeError: the handler ends there and nothing has changed
RaiseAttributeError(name, key) ==
    /\ UNCHANGED <<left_pressed, right_pressed, shift_key_pressed, direction,
                   pressed>>
    /\ KeepMachine
    /\ last' = [Op(name, key, FALSE) EXCEPT !.ret = "AttributeError"]

\* shift_key_pressed is assigned and the movement event is fired
ShiftThenMovement(name, key, b) ==
    /\ shift_key_pressed' = b
    /\ UNCHANGED <<left_pressed, right_pressed, direction, pressed>>
    /\ \E m \in Fire(movement, Machine,
                     Inp(left_pressed, right_pressed, b, direction)) :
           Install(m)
    /\ last' = [Op(name, key, FALSE) EXCEPT !.mv = 1]

\* A view whose LCTRL asks for attack_2
KeyCommand_attack_2(key) == IF key = "SPACE" THEN "jump" ELSE "attack_2"

\* The command on_key_press passes to handle_action_input: jump for SPACE,
\* attack_1 for LCTRL
KeyCommand(key) == IF key = "SPACE" THEN "jump" ELSE "attack_1"

\* DuelView.on_key_press
on_key_press ==
    \E key \in Keys :
        /\ \/ /\ key \in {"LEFT", "RIGHT"}
              /\ RaiseAttributeError("on_key_press", key)
           \/ /\ key = "LSHIFT"
              /\ ShiftThenMovement("on_key_press", key, TRUE)
           \/ /\ key \in {"SPACE", "LCTRL"}
              /\ \E m \in handle_action_input(Machine, KeyCommand(key),
                                                CurInp) :
                     Install(m)
              /\ UNCHANGED <<left_pressed, right_pressed, shift_key_pressed,
                             direction, pressed>>
              /\ last' = Op("on_key_press", key, FALSE)
        /\ KeepEnemy

\* DuelView.on_key_release
on_key_release ==
    \E key \in Keys :
        /\ \/ /\ key \in {"LEFT", "RIGHT"}
              /\ RaiseAttributeError("on_key_release", key)
           \/ /\ key = "LSHIFT"
              /\ ShiftThenMovement("on_key_release", key, FALSE)
           \/ /\ key \in {"SPACE", "LCTRL"}
              /\ UNCHANGED <<left_pressed, right_pressed, shift_key_pressed,
                             direction, pressed>>
              /\ KeepMachine
              /\ last' = Op("on_key_release", key, FALSE)
        /\ KeepEnemy

\* The player under DuelView: the key handlers, and the completions of the
\* player's cycle that on_update drives
NextView ==
    \/ on_key_press
    \/ on_key_release
    \/ CycleComplete

SpecView == Init /\ [][NextView]_vars

\* DuelView.on_update with no key pressed: Action.update_all advances the
\* cycles of both fighters, and either may complete a loop
NextUpdate ==
    \/ CycleComplete
    \/ EnemyCycleComplete

SpecUpdate == Init /\ [][NextUpdate]_vars

\* ---------------------------------------------------------- observations

\* The on_enter hook of state s ran while the last operation was processed
Entered(s) == \E i \in DOMAIN trace : trace[i] = [hook |-> "enter", st |-> s]

\* Some hook of a movement state ran while the last operation was processed
TouchedMovement == \E i \in DOMAIN trace : trace[i].st \in MovementStates

\* The action state each command asks for
StateOfCmd(cmd) ==
    CASE cmd = "jump" -> "Jump"
      [] cmd = "attack_1" -> "Attack_1"
      [] cmd = "attack_2" -> "Attack_2"
      [] cmd = "special" -> "Special"

\* The last operation was the completion of an action state's cycle
ActionCompleted == last.op = "complete" /\ last.from \in ACTION_STATES

\* The last operation was handle_action_input in a non-interruptible state
BufferedInput == last.op = "handle_action_input" /\ last.from \in ACTION_STATES

\* The last operation was handle_action_input in Idle, Walk or Run
DirectInput == last.op = "handle_action_input" /\ last.from \in MovementStates

Moving == left_pressed \/ right_pressed

RunInput == Moving /\ shift_key_pressed /\ direction = 1

\* ------------------------------------------------------------------ claims

\* C1: when the cycle of Jump, Attack_1, Attack_2 or Special completes with a
\* non-empty buffer, the machine enters the action state of the oldest buffered
\* command (a jump only when direction is +1) without any hook of Idle, Walk
\* or Run running in between.
C1_Chaining ==
    (/\ ActionCompleted
     /\ last.q # <<>>
     /\ Head(last.q) \in Commands
     /\ (Head(last.q) = "jump" => direction = 1))
    => /\ current_state = StateOfCmd(Head(last.q))
       /\ Entered(StateOfCmd(Head(last.q)))
       /\ ~TouchedMovement

\* C2: when the cycle of an action state completes with an empty buffer, the
\* machine is in Run iff move and shift and forward, in Walk iff move and not
\* (shift and forward), in Idle iff not move.
C2_ResumeCorrect ==
    (ActionCompleted /\ last.q = <<>>)
    => /\ current_state = "Run" <=> RunInput
       /\ current_state = "Walk" <=> (Moving /\ ~(shift_key_pressed /\ direction = 1))
       /\ current_state = "Idle" <=> ~Moving

\* C3: handle_action_input(cmd) in a non-interruptible state leaves the state
\* and the running cycle alone, runs no hook, and puts cmd at the tail of the
\* buffer behind the commands that were buffered before it, in their order.
C3_Buffering ==
    BufferedInput
    => /\ current_state = last.from
       /\ trace = <<>>
       /\ cycle = last.cyc
       /\ queue # <<>>
       /\ queue[Len(queue)] = last.cmd
       /\ \E k \in 0..Len(last.q) :
              SubSeq(queue, 1, Len(queue) - 1) = SubSeq(last.q, k + 1, Len(last.q))

C3_Witness ==
    /\ BufferedInput
    /\ Len(last.q) = 1
    /\ Len(queue) = 2
    /\ queue[1] # queue[2]

\* C4: the action buffer never holds more than 2 commands.
C4_BufferAtMostTwo == Len(queue) <= 2

C4_Witness == BufferedInput /\ Len(last.q) = 2 /\ Len(queue) = 2

\* C5: handle_action_input(c3) in a non-interruptible state with the buffer
\* holding [c1, c2] leaves [c2, c3] and the state unchanged.
C5_DropOldest ==
    (BufferedInput /\ Len(last.q) = 2)
    => /\ queue = <<last.q[2], last.cmd>>
       /\ current_state = last.from

C5_Witness ==
    /\ BufferedInput
    /\ Len(last.q) = 2
    /\ last.q[1] # last.q[2]
    /\ last.cmd # last.q[1]
    /\ last.cmd # last.q[2]
    /\ queue = <<last.q[2], last.cmd>>

\* C6: a movement or resume transition into Run is taken only with a movement
\* key held, shift held and direction +1; a movement event with left held,
\* direction -1 and shift held ends in Walk from Idle and from Run.
C6_RunRequiresForward ==
    /\ ((last.op = "movement" \/ ActionCompleted) /\ Entered("Run")) => RunInput
    /\ (/\ last.op = "movement"
        /\ last.from \in {"Idle", "Run"}
        /\ left_pressed /\ direction = -1 /\ shift_key_pressed)
       => current_state = "Walk"

C6_Witness ==
    /\ last.op = "movement"
    /\ last.from = "Run"
    /\ left_pressed /\ direction = -1 /\ shift_key_pressed
    /\ current_state = "Walk"
    /\ Entered("Walk")

\* C7: handle_action_input("jump") in Idle or Walk with direction -1 changes
\* neither the state nor the buffer, and runs no hook.
C7_JumpRequiresForward ==
    (DirectInput /\ last.from \in {"Idle", "Walk"} /\ last.cmd = "jump"
       /\ direction = -1)
    => /\ current_state = last.from
       /\ queue = last.q
       /\ trace = <<>>

C7_Witness ==
    /\ DirectInput
    /\ last.from = "Walk"
    /\ last.cmd = "jump"
    /\ direction = -1
    /\ current_state = "Walk"

C9_MovementIdempotent ==
    (last.op = "movement" /\ last.rep)
    => /\ current_state = last.from
       /\ trace = <<>>
       /\ cycle = last.cyc

\* C10: the movement event takes Idle to Walk if move and not shift, to Run if
\* move and shift and forward, to Walk if move and shift and not forward, and
\* keeps Idle if not move; takes Walk to Run if move and shift and forward, to
\* Idle if not move, else keeps Walk; takes Run to Walk if move and (not shift
\* or not forward), to Idle if not move, else keeps Run.
C10_MovementTable ==
    last.op = "movement"
    => /\ last.from = "Idle"
          => current_state = (IF ~Moving THEN "Idle"
                              ELSE IF RunInput THEN "Run" ELSE "Walk")
       /\ last.from = "Walk"
          => current_state = (IF ~Moving THEN "Idle"
                              ELSE IF RunInput THEN "Run" ELSE "Walk")
       /\ last.from = "Run"
          => current_state = (IF ~Moving THEN "Idle"
                              ELSE IF RunInput THEN "Run" ELSE "Walk")

C10_Witness ==
    /\ last.op = "movement"
    /\ last.from = "Walk"
    /\ current_state = "Run"
    /\ Entered("Run")

\* C11: a movement event fired in Jump, Attack_1, Attack_2 or Special is
\* absorbed: the state, the buffer, the pending command and the running cycle
\* are unchanged and no hook runs.
C11_MovementAbsorbed ==
    (last.op = "movement" /\ last.from \in ACTION_STATES)
    => /\ current_state = last.from
       /\ queue = last.q
       /\ cycle = last.cyc
       /\ latest_cmd = last.pend
       /\ trace = <<>>

C11_Witness ==
    /\ last.op = "movement"
    /\ last.from = "Jump"
    /\ Moving /\ shift_key_pressed
    /\ queue # <<>>
    /\ current_state = "Jump"

\* The last operation was a press or release of the left or right key
KeyOp == last.op \in {"press_left", "release_left", "press_right", "release_right"}

\* The last operation asked for the desired movement state
Asked == last.op = "get_movement_state"

\* C12: after any sequence of press_left, press_right, release_left and
\* release_right the direction is -1 or +1, and it is +1 as long as no press
\* has occurred.
C12_DirectionNeverZero ==
    /\ direction \in {-1, 1}
    /\ ~pressed => direction = 1

C12_Witness ==
    /\ last.op = "release_left"
    /\ pressed
    /\ ~Moving
    /\ direction = -1

\* C13: after every press or release, direction is +1 if right is held, else
\* -1 if left is held, else what it was before the operation.
C13_DirectionRule ==
    KeyOp
    => /\ right_pressed => direction = 1
       /\ (~right_pressed /\ left_pressed) => direction = -1
       /\ (~right_pressed /\ ~left_pressed) => direction = last.dir

C13_Witness ==
    /\ last.op = "release_right"
    /\ left_pressed
    /\ last.dir = 1
    /\ direction = -1

\* C14 as stated: the desired movement state is the no-move state with no key
\* held, else the run state if shift is held and direction is +1, else the
\* walk state.
C14_DesiredStateForwardOnly ==
    Asked
    => last.ret = (IF ~Moving THEN "Idle"
                   ELSE IF shift_key_pressed /\ direction = 1 THEN "Run"
                   ELSE "Walk")

\* C14 amended: the desired movement state is the no-move state with no key
\* held, else the run state if shift is held, whatever the direction, else the
\* walk state; with left held, direction -1 and shift held it is the run state.
C14_DesiredStateAnyDirection ==
    Asked
    => /\ last.ret = (IF ~Moving THEN "Idle"
                      ELSE IF shift_key_pressed THEN "Run"
                      ELSE "Walk")
       /\ (left_pressed /\ direction = -1 /\ shift_key_pressed) => last.ret = "Run"

C14_Witness ==
    /\ Asked
    /\ left_pressed /\ ~right_pressed
    /\ direction = -1
    /\ shift_key_pressed
    /\ last.ret = "Run"

\* C15: the desired movement state depends only on whether a movement key is
\* held and whether shift is held: idle with no key, run with a key and shift
\* (left as well as right), walk with a key and no shift.
C15_DesiredStateMoveShiftOnly ==
    Asked
    => /\ ~Moving => last.ret = "Idle"
       /\ (Moving /\ shift_key_pressed) => last.ret = "Run"
       /\ (Moving /\ ~shift_key_pressed) => last.ret = "Walk"

C15_Witness ==
    /\ Asked
    /\ right_pressed /\ ~left_pressed
    /\ shift_key_pressed
    /\ last.ret = "Run"

\* C16: handle_action_input of an unrecognised command changes neither the
\* state nor the buffer nor the pending command, in every state.
C16_InvalidCommandRejected ==
    (last.op = "handle_action_input" /\ last.cmd \notin Commands)
    => /\ current_state = last.from
       /\ queue = last.q
       /\ latest_cmd = last.pend

\* The successors and weights the enemy's transition table gives per state
EnemyTable(s) ==
    CASE s = "Idle" -> {<<"Attack_1", 5>>, <<"Attack_2", 5>>, <<"Idle_2", 10>>,
                        <<"Run", 15>>, <<"Special", 5>>, <<"Walk", 20>>,
                        <<"Idle", 40>>}
      [] s \in {"Attack_1", "Attack_2", "Jump"} ->
                       {<<"Attack_1", 10>>, <<"Attack_2", 10>>, <<"Special", 10>>,
                        <<"Run", 15>>, <<"Walk", 25>>, <<"Idle", 30>>}
      [] s = "Special" -> {<<"Walk", 20>>, <<"Idle", 80>>}
      [] s = "Run" -> {<<"Jump", 20>>, <<"Run", 40>>, <<"Walk", 20>>, <<"Idle", 20>>}
      [] s = "Walk" -> {<<"Attack_1", 5>>, <<"Attack_2", 10>>, <<"Special", 5>>,
                        <<"Run", 25>>, <<"Walk", 35>>, <<"Idle", 15>>}

\* What the rolls of state s's completion can select: successor and weight
EnemyOffers(s) ==
    LET rows == EnemyRows(EnemyEventOf(s), s)
    IN {<<Pick(rows, r).dst, Pick(rows, r).weight>> : r \in Rolls(rows)}

\* The roll values of state s's completion that select successor d
RollsTo(s, d) ==
    LET rows == EnemyRows(EnemyEventOf(s), s)
    IN {r \in Rolls(rows) : Pick(rows, r).dst = d}

EnemyCompleted == enemy_last.from # "none"

\* C17: on completion of an enemy state's cycle the machine moves to one of
\* the successors of the table, selected with the table's weight, and the
\* rolls offer every entry of the table and nothing else; Idle_2 only moves
\* to Idle.
C17_EnemyTable ==
    /\ (EnemyCompleted /\ enemy_last.from # "Idle_2")
       => <<enemy_state, enemy_last.weight>> \in EnemyTable(enemy_last.from)
    /\ (EnemyCompleted /\ enemy_last.from = "Idle_2") => enemy_state = "Idle"
    /\ \A s \in EnemyStates \ {"Idle_2"} : EnemyOffers(s) = EnemyTable(s)
    /\ {o[1] : o \in EnemyOffers("Idle_2")} = {"Idle"}

C17_Witness ==
    /\ enemy_last.from = "Special"
    /\ enemy_state = "Walk"
    /\ enemy_last.weight = 20

\* C18 as stated: the weights of the enemy's Walk transitions sum to 115 and
\* the Walk loop has 35 of them.
C18_WalkWeights115 ==
    enemy_last.from = "Walk"
    => /\ enemy_last.total = 115
       /\ Cardinality(RollsTo("Walk", "Walk")) = 35

\* C18 amended: the weights of the enemy's Walk transitions sum to 95, so the
\* Walk loop is chosen with weight ratio 35/95.
C18_WalkWeights95 ==
    enemy_last.from = "Walk"
    => /\ enemy_last.total = 95
       /\ Cardinality(RollsTo("Walk", "Walk")) = 35
       /\ enemy_state = "Walk" => enemy_last.weight = 35

C18_Witness ==
    /\ enemy_last.from = "Walk"
    /\ enemy_state = "Walk"
    /\ enemy_last.total = 95
    /\ enemy_last.weight = 35

ResumedWithBuffer ==
    last.op = "resume" /\ last.from \in ACTION_STATES /\ last.q # <<>>

\* C20: resume fired from a non-interruptible state with a non-empty buffer
\* takes the resume transition into Idle, Walk or Run, then pops the oldest
\* command, so that the buffer shrinks by one, and fires action with it, ending
\* in that command's action state when its guard holds.
C20_PumpAfterResume ==
    ResumedWithBuffer
    => /\ Len(trace) >= 2
       /\ trace[1] = [hook |-> "exit", st |-> last.from]
       /\ trace[2].hook = "enter" /\ trace[2].st \in MovementStates
       /\ queue = Tail(last.q)
       /\ (Head(last.q) \in Commands /\ (Head(last.q) = "jump" => direction = 1))
          => /\ current_state = StateOfCmd(Head(last.q))
             /\ Entered(StateOfCmd(Head(last.q)))

\* The last operation was the view's handler name for key
ViewOp(name, key) == last.op = name /\ last.cmd = key

\* C21: DuelView key handling. Pressing LEFT (RIGHT) makes move true, sets
\* direction to -1 (+1, right winning while both are held) and fires exactly
\* one movement event; releasing the key clears its held flag, keeps the last
\* direction when no key remains held (or reverts to the still-held key's
\* direction) and fires exactly one movement event; pressing / releasing
\* LSHIFT sets / clears shift and fires one movement event.
C21_ViewKeys ==
    /\ ViewOp("on_key_press", "LEFT")
        => /\ left_pressed
           /\ direction = (IF right_pressed THEN 1 ELSE -1)
           /\ last.mv = 1
    /\ ViewOp("on_key_press", "RIGHT")
        => /\ right_pressed
           /\ direction = 1
           /\ last.mv = 1
    /\ ViewOp("on_key_release", "LEFT")
        => /\ ~left_pressed
           /\ direction = (IF right_pressed THEN 1 ELSE last.dir)
           /\ last.mv = 1
    /\ ViewOp("on_key_release", "RIGHT")
        => /\ ~right_pressed
           /\ direction = (IF left_pressed THEN -1 ELSE last.dir)
           /\ last.mv = 1
    /\ ViewOp("on_key_press", "LSHIFT") => shift_key_pressed /\ last.mv = 1
    /\ ViewOp("on_key_release", "LSHIFT") => ~shift_key_pressed /\ last.mv = 1

\* C22: no gameplay event (movement, handle_action_input, a completion of the
\* current state's cycle) takes the player into Hurt or Dead: Hurt is entered
\* only by _connect_hurt and Dead only from Hurt; once in Hurt, completions
\* take the machine from Hurt to Dead and from Dead to Idle.
C22_HurtDeadUnused ==
    /\ Entered("Hurt") => last.op = "_connect_hurt"
    /\ Entered("Dead") => (last.op = "complete" /\ last.from = "Hurt")
    /\ (last.op = "complete" /\ last.from = "Hurt") => current_state = "Dead"
    /\ (last.op = "complete" /\ last.from = "Dead") => current_state = "Idle"

C22_Witness ==
    /\ last.op = "complete"
    /\ last.from = "Dead"
    /\ current_state = "Idle"
    /\ trace = <<[hook |-> "exit", st |-> "Dead"], [hook |-> "enter", st |-> "Idle"]>>

\* The guard of the action transition for cmd holds in the current input
GuardHolds(cmd) == cmd \in Commands /\ (cmd = "jump" => direction = 1)

\* C23: buffered commands are executed in arrival order. When an action
\* state completes with c1 and then c2 in the buffer (their guards holding),
\* the machine enters the action state of c1, exactly once and with no hook
\* of Idle, Walk or Run run, and c2 alone stays buffered for the next
\* completion; a command leaves the buffer only by being executed.
C23_ArrivalOrder ==
    /\ (/\ ActionCompleted
         /\ Len(last.q) = 2
         /\ GuardHolds(last.q[1])
         /\ GuardHolds(last.q[2]))
        => /\ current_state = StateOfCmd(last.q[1])
           /\ queue = <<last.q[2]>>
           /\ trace = <<[hook |-> "exit", st |-> last.from],
                        [hook |-> "enter", st |-> StateOfCmd(last.q[1])]>>
    /\ (/\ last.op = "complete"
         /\ Len(queue) < Len(last.q)
         /\ GuardHolds(Head(last.q)))
        => Entered(StateOfCmd(Head(last.q)))

EnteredLast(s) ==
    trace # <<>> /\ trace[Len(trace)] = [hook |-> "enter", st |-> s]

\* C25: entering Jump, Attack_1, Attack_2 or Special consumes the pending
\* command: right after the entry latest_cmd is empty.
C25_EntryConsumes ==
    \A s \in ACTION_STATES : EnteredLast(s) => latest_cmd = NoCmd

C25_Witness ==
    /\ DirectInput
    /\ last.cmd = "special"
    /\ last.pend = "taunt"
    /\ EnteredLast("Special")
    /\ current_state = "Special"
    /\ latest_cmd = NoCmd

\* C26: facing is snapshotted at entry. The cycle of an action state faces
\* InputState.direction as it was when the state was entered (the last
\* movement direction, also when entered from Idle), and press / release of
\* left or right while the action state stays active leaves the running
\* cycle, its facing included, as it was.
C26_FacingSnapshot ==
    /\ \A s \in ACTION_STATES :
           EnteredLast(s) => (cycle.st = s /\ cycle.dir = last.dir)
    /\ (KeyOp /\ current_state \in ACTION_STATES)
        => (current_state = last.from /\ cycle = last.cyc)

C26_Witness ==
    /\ KeyOp
    /\ current_state \in ACTION_STATES
    /\ direction # last.dir
    /\ cycle = last.cyc
    /\ cycle.dir = last.dir
    /\ cycle.dir = -1

\* C27: the completion of the Walk (Run) cycle keeps the player machine in
\* Walk (Run) whatever the input state is, and leaves the buffer, the pending
\* command and the InputState unchanged.
C27_LoopKeepsState ==
    [][(last'.op = "complete" /\ current_state \in {"Walk", "Run"})
       => /\ current_state' = current_state
          /\ UNCHANGED <<queue, latest_cmd, left_pressed, right_pressed,
                         shift_key_pressed, direction>>]_vars

C27_Witness ==
    /\ last.op = "complete"
    /\ last.from = "Walk"
    /\ current_state = "Walk"
    /\ ~Moving
    /\ latest_cmd = "jump"
    /\ Entered("Walk")

\* C28: liveness of action states. With cycles that keep completing and no
\* further input, every entry into Jump, Attack_1, Attack_2 or Special is
\* followed by a return to Idle, Walk or Run, for every combination of held
\* keys: once a completion has left the machine in an action state, either
\* it reaches Idle, Walk or Run or an operation other than a completion
\* arrives.
C28_ActionsReturn ==
    (current_state \in ACTION_STATES /\ last.op = "complete")
    ~> (current_state \in MovementStates \/ last.op # "complete")

\* The commands held in the buffer
Buffered == {queue[i] : i \in DOMAIN queue}

\* C29: no silently lost command. In every reachable player state, Idle_2
\* included, when handle_action_input(cmd) returns for cmd among attack_1,
\* attack_2 and special, the machine is in the action state of cmd or cmd is
\* in the buffer.
C29_NoLostCommand ==
    (last.op = "handle_action_input"
     /\ last.cmd \in {"attack_1", "attack_2", "special"})
    => (current_state = StateOfCmd(last.cmd) \/ last.cmd \in Buffered)

\* C30: Idle agrees with input. When every press or release of left, right
\* or shift is immediately followed by a movement event, the player machine
\* is never at rest in Idle while a movement key is held.
C30_IdleAgreesWithInput == current_state = "Idle" => ~Moving

\* C31: Walk and Run agree with input. When every press or release of left,
\* right or shift is immediately followed by a movement event, the player
\* machine at rest in Run has move, shift and direction = +1, and at rest in
\* Walk has move and not (shift and direction = +1).
C31_WalkRunAgreeWithInput ==
    /\ current_state = "Run" => RunInput
    /\ current_state = "Walk" => (Moving /\ ~(shift_key_pressed /\ direction = 1))

C31_Witness ==
    /\ last.op = "release_right+movement"
    /\ last.from = "Run"
    /\ current_state = "Walk"
    /\ left_pressed
    /\ shift_key_pressed
    /\ direction = -1

\* C32: the player machine never enters Jump while direction = -1, the jump
\* from Run, which carries no forward guard, included: when every press or
\* release of left, right or shift is immediately followed by a movement
\* event, every entry into Jump, direct or by a buffered command, happens
\* with direction = +1.
C32_JumpOnlyForward == Entered("Jump") => (direction = 1 /\ last.dir = 1)

C32_Witness ==
    /\ DirectInput
    /\ last.cmd = "jump"
    /\ last.from = "Run"
    /\ left_pressed
    /\ right_pressed
    /\ EnteredLast("Jump")
    /\ cycle.dir = 1

\* C33: with movement, handle_action_input and cycle completions as the only
\* events (resume fired by the completion callback alone), the buffer is
\* non-empty only in a non-interruptible state: at rest in Idle, Idle_2, Walk
\* or Run the buffer is empty.
C33_BufferOnlyInActionStates ==
    current_state \in {"Idle", "Idle_2", "Walk", "Run"} => queue = <<>>

C33_Witness ==
    /\ ActionCompleted
    /\ last.q = <<>>
    /\ last.pend = "jump"
    /\ current_state = "Walk"
    /\ EnteredLast("Walk")
    /\ queue = <<>>

\* The last operation supplied command cmd: handle_action_input(cmd), or a
\* completion or resume that popped cmd from the head of the buffer
Supplied(cmd) ==
    \/ last.op = "handle_action_input" /\ last.cmd = cmd
    \/ /\ last.op \in {"complete", "resume"}
       /\ last.q # <<>>
       /\ Head(last.q) = cmd

\* C34: a rejected command never fires later. The player machine enters the
\* action state of command X only while processing the handle_action_input
\* call or the buffer pop that supplied X: a pending command left behind by
\* a rejected action causes no entry on a later movement event, completion
\* or differently-named command.
C34_NoLateFire ==
    \A cmd \in Commands : Entered(StateOfCmd(cmd)) => Supplied(cmd)

C34_Witness ==
    /\ last.op = "handle_action_input"
    /\ last.cmd = "attack_1"
    /\ last.pend = "jump"
    /\ last.from = "Walk"
    /\ direction = 1
    /\ EnteredLast("Attack_1")
    /\ ~Entered("Jump")

\* The states a completion of enemy state s can select
EnemySucc(s) == {o[1] : o \in EnemyOffers(s)}

\* The enemy states reachable from the states of S by completions
RECURSIVE EnemyReach(_)
EnemyReach(S) ==
    LET N == S \cup UNION {EnemySucc(s) : s \in S}
    IN IF N = S THEN S ELSE EnemyReach(N)

\* C35: the enemy machine never deadlocks and has no absorbing state. In
\* every reachable enemy state the completion event of that state has an
\* enabled transition and one that leaves the state, Idle is reachable again
\* from the state, and every enemy state is reachable from Idle.
C35_EnemyNeverStuck ==
    /\ ENABLED EnemyCycleComplete
    /\ EnemyRows(EnemyEventOf(enemy_state), enemy_state) # <<>>
    /\ EnemySucc(enemy_state) \ {enemy_state} # {}
    /\ "Idle" \in EnemyReach(EnemySucc(enemy_state))
    /\ EnemyReach({"Idle"}) = EnemyStates

C35_Witness ==
    /\ enemy_last.from = "Jump"
    /\ enemy_state = "Idle"
    /\ enemy_cycle.st = "Idle"
    /\ enemy_last.weight = 30

\* C36: the enemy machine enters Jump only from Run: the state completed
\* just before any Jump state is Run, no other state's completion can select
\* Jump, and the enemy never stays in Jump over a completion.
C36_EnemyJumpOnlyFromRun ==
    /\ (EnemyCompleted /\ enemy_state = "Jump") => enemy_last.from = "Run"
    /\ enemy_last.from = "Jump" => enemy_state # "Jump"
    /\ {s \in EnemyStates : "Jump" \in EnemySucc(s)} = {"Run"}

C36_Witness ==
    /\ enemy_last.from = "Run"
    /\ enemy_state = "Jump"
    /\ enemy_cycle.st = "Jump"
    /\ enemy_last.weight = 20

\* C37: when the player machine is driven only through DuelView's key
\* handlers and cycle completions, the only commands passed to
\* handle_action_input are jump (SPACE) and attack_1 (LCTRL): the machine
\* never enters Attack_2 or Special, and neither the buffer nor the pending
\* command ever holds attack_2 or special.
C37_ViewCommands ==
    /\ current_state \notin {"Attack_2", "Special"}
    /\ ~Entered("Attack_2") /\ ~Entered("Special")
    /\ \A i \in DOMAIN queue : queue[i] \in {"jump", "attack_1"}
    /\ latest_cmd \in {NoCmd, "jump", "attack_1"}

C37_Witness ==
    /\ ViewOp("on_key_press", "LCTRL")
    /\ last.from = "Attack_1"
    /\ current_state = "Attack_1"
    /\ queue = <<"jump", "attack_1">>


====
